---- MODULE Spec2Model ----
(***************************************************************************)
(* A model of src/main.rs: the board, the move generator, the legality     *)
(* filter, the sampled game tree and the game loop of main.                *)
(***************************************************************************)
EXTENDS Integers, Sequences, FiniteSets, TLC

(***************************************************************************)
(* Color, Piece, ColorPiece                                                *)
(***************************************************************************)
Color == {"Black", "White"}

Piece == {"Bishop", "Empty", "King", "Knight", "Pawn", "Queen", "Rook"}

other(c) == IF c = "Black" THEN "White" ELSE "Black"

value(p) ==
    CASE p \in {"Empty", "King"} -> 0
      [] p \in {"Bishop", "Knight"} -> 3
      [] p = "Pawn" -> 1
      [] p = "Queen" -> 9
      [] p = "Rook" -> 5

EMPTY == <<"White", "Empty">>

FILES == <<"a", "b", "c", "d", "e", "f", "g", "h">>

RANKS == <<1, 2, 3, 4, 5, 6, 7, 8>>

(***************************************************************************)
(* Square.  Indexes are 0-based as in the source; FILES and RANKS are      *)
(* 1-based sequences here, hence the +1 / -1.                              *)
(***************************************************************************)
\* Option<T>: None is the empty sequence, Some(x) is <<x>>
None == <<>>

Some(x) == <<x>>

unwrap(o) == o[1]

Sq(file, rank) == [file |-> file, rank |-> rank]

from_indexes(i, j) == Sq(FILES[i + 1], RANKS[j + 1])

position(seq, x) == (CHOOSE k \in 1..Len(seq) : seq[k] = x) - 1

\* FILES.iter().position(..) and RANKS.iter().position(..), tabulated
file_position == [f \in {FILES[k] : k \in 1..8} |-> position(FILES, f)]

rank_position == [r \in {RANKS[k] : k \in 1..8} |-> position(RANKS, r)]

indexes(s) == <<file_position[s.file], rank_position[s.rank]>>

Squares == {from_indexes(i, j) : i \in 0..7, j \in 0..7}

abs(n) == IF n < 0 THEN -n ELSE n

\* n / |n| for n # 0, as the source computes its directions
sign(n) == IF n < 0 THEN -1 ELSE 1

neighboor(s, i_delta, j_delta) ==
    LET ij == indexes(s)
        move_i == ij[1] + i_delta
        move_j == ij[2] + j_delta
    IN  IF 0 <= move_i /\ move_i <= 7 /\ 0 <= move_j /\ move_j <= 7
        THEN Some(from_indexes(move_i, move_j))
        ELSE None

left(s) == neighboor(s, -1, 0)
right(s) == neighboor(s, 1, 0)
up(s) == neighboor(s, 0, 1)
down(s) == neighboor(s, 0, -1)
up_left(s) == neighboor(s, -1, 1)
up_right(s) == neighboor(s, 1, 1)
down_left(s) == neighboor(s, -1, -1)
down_right(s) == neighboor(s, 1, -1)

\* the while-let loop of in_between: walk from current in direction
\* (i_dir, j_dir) until other is met; outcome "unreachable" when the edge of
\* the board is met first
RECURSIVE between_walk(_, _, _, _, _)
between_walk(current, target, i_dir, j_dir, nodes) ==
    LET square == neighboor(current, i_dir, j_dir)
    IN  IF square = None THEN [outcome |-> "unreachable", nodes |-> nodes]
        ELSE IF unwrap(square) = target THEN [outcome |-> "ok", nodes |-> nodes]
        ELSE between_walk(unwrap(square), target, i_dir, j_dir,
                          Append(nodes, unwrap(square)))

\* Square::in_between: outcome "ok" with the squares in between, or outcome
\* "panic" (not aligned) or "unreachable" (the walk left the board)
in_between(self, target) ==
    LET s == indexes(self)
        o == indexes(target)
        i_delta == o[1] - s[1]
        j_delta == o[2] - s[2]
        i_dir == IF i_delta = 0 THEN 0 ELSE sign(i_delta)
        j_dir == IF j_delta = 0 THEN 0 ELSE sign(j_delta)
    IN  IF ~(i_delta = 0 \/ j_delta = 0 \/ abs(i_delta) = abs(j_delta))
        THEN [outcome |-> "panic", nodes |-> <<>>]
        ELSE between_walk(self, target, i_dir, j_dir, <<>>)

(***************************************************************************)
(* available_moves                                                         *)
(***************************************************************************)
\* one "while let Some(x) = current.dir()" loop of the Bishop and Rook arms
RECURSIVE ray(_, _, _)
ray(current, i_delta, j_delta) ==
    LET n == neighboor(current, i_delta, j_delta)
    IN  IF n = None THEN <<>> ELSE <<unwrap(n)>> \o ray(unwrap(n), i_delta, j_delta)

\* .into_iter().filter(|s| s.is_some()).map(|s| s.unwrap()).collect()
RECURSIVE somes(_)
somes(opts) ==
    IF opts = <<>> THEN <<>>
    ELSE IF Head(opts) = None THEN somes(Tail(opts))
    ELSE <<unwrap(Head(opts))>> \o somes(Tail(opts))

bishop_moves(square) ==
    ray(square, -1, 1) \o ray(square, 1, 1) \o ray(square, -1, -1) \o ray(square, 1, -1)

rook_moves(square) ==
    ray(square, -1, 0) \o ray(square, 1, 0) \o ray(square, 0, 1) \o ray(square, 0, -1)

\* available_moves whose pawns never advance two squares
available_moves_single_step(square, piece) ==
    CASE piece[2] = "Bishop" -> bishop_moves(square)
      [] piece[2] = "Empty" -> <<>>
      [] piece[2] = "King" ->
            somes(<<left(square), right(square), up(square), down(square),
                    up_left(square), up_right(square),
                    down_left(square), down_right(square)>>)
      [] piece[2] = "Knight" ->
            somes(<<neighboor(square, 2, 1), neighboor(square, 2, -1),
                    neighboor(square, -2, 1), neighboor(square, -2, -1),
                    neighboor(square, 1, 2), neighboor(square, 1, -2),
                    neighboor(square, -1, 2), neighboor(square, -1, -2)>>)
      [] piece[2] = "Pawn" ->
            IF piece[1] = "Black"
            THEN somes(<<down(square), down_left(square), down_right(square)>>)
            ELSE somes(<<up(square), up_left(square), up_right(square)>>)
      [] piece[2] = "Queen" -> rook_moves(square) \o bishop_moves(square)
      [] piece[2] = "Rook" -> rook_moves(square)

\* available_moves whose Queen arm also appends the Knight's jumps
available_moves_queen_jumps(square, piece) ==
    CASE piece[2] = "Bishop" -> bishop_moves(square)
      [] piece[2] = "Empty" -> <<>>
      [] piece[2] = "King" ->
            somes(<<left(square), right(square), up(square), down(square),
                    up_left(square), up_right(square),
                    down_left(square), down_right(square)>>)
      [] piece[2] = "Knight" ->
            somes(<<neighboor(square, 2, 1), neighboor(square, 2, -1),
                    neighboor(square, -2, 1), neighboor(square, -2, -1),
                    neighboor(square, 1, 2), neighboor(square, 1, -2),
                    neighboor(square, -1, 2), neighboor(square, -1, -2)>>)
      [] piece[2] = "Pawn" ->
            IF piece[1] = "Black"
            THEN somes(<<down(square), down_left(square), down_right(square)>>
                       \o (IF square.rank = 7 THEN <<neighboor(square, 0, -2)>> ELSE <<>>))
            ELSE somes(<<up(square), up_left(square), up_right(square)>>
                       \o (IF square.rank = 2 THEN <<neighboor(square, 0, 2)>> ELSE <<>>))
      [] piece[2] = "Queen" ->
            rook_moves(square) \o bishop_moves(square)
            \o somes(<<neighboor(square, 2, 1), neighboor(square, 2, -1),
                       neighboor(square, -2, 1), neighboor(square, -2, -1),
                       neighboor(square, 1, 2), neighboor(square, 1, -2),
                       neighboor(square, -1, 2), neighboor(square, -1, -2)>>)
      [] piece[2] = "Rook" -> rook_moves(square)

available_moves(square, piece) ==
    CASE piece[2] = "Bishop" -> bishop_moves(square)
      [] piece[2] = "Empty" -> <<>>
      [] piece[2] = "King" ->
            somes(<<left(square), right(square), up(square), down(square),
                    up_left(square), up_right(square),
                    down_left(square), down_right(square)>>)
      [] piece[2] = "Knight" ->
            somes(<<neighboor(square, 2, 1), neighboor(square, 2, -1),
                    neighboor(square, -2, 1), neighboor(square, -2, -1),
                    neighboor(square, 1, 2), neighboor(square, 1, -2),
                    neighboor(square, -1, 2), neighboor(square, -1, -2)>>)
      [] piece[2] = "Pawn" ->
            IF piece[1] = "Black"
            THEN somes(<<down(square), down_left(square), down_right(square)>>
                       \o (IF square.rank = 7 THEN <<neighboor(square, 0, -2)>> ELSE <<>>))
            ELSE somes(<<up(square), up_left(square), up_right(square)>>
                       \o (IF square.rank = 2 THEN <<neighboor(square, 0, 2)>> ELSE <<>>))
      [] piece[2] = "Queen" -> rook_moves(square) \o bishop_moves(square)
      [] piece[2] = "Rook" -> rook_moves(square)

(***************************************************************************)
(* Board                                                                   *)
(***************************************************************************)
get(b, square) == LET ij == indexes(square) IN b.squares[ij[1]][ij[2]]

set(b, square, piece) ==
    LET ij == indexes(square)
    IN  [b EXCEPT !.squares[ij[1]][ij[2]] = piece]

add_bishops(b, color) ==
    IF color = "Black"
    THEN set(set(b, Sq("c", 8), <<"Black", "Bishop">>), Sq("f", 8), <<"Black", "Bishop">>)
    ELSE set(set(b, Sq("c", 1), <<"White", "Bishop">>), Sq("f", 1), <<"White", "Bishop">>)

add_king(b, color) ==
    IF color = "Black"
    THEN set(b, Sq("e", 8), <<"Black", "King">>)
    ELSE set(b, Sq("e", 1), <<"White", "King">>)

add_knights(b, color) ==
    IF color = "Black"
    THEN set(set(b, Sq("b", 8), <<"Black", "Knight">>), Sq("g", 8), <<"Black", "Knight">>)
    ELSE set(set(b, Sq("b", 1), <<"White", "Knight">>), Sq("g", 1), <<"White", "Knight">>)

RECURSIVE add_pawns_from(_, _, _)
add_pawns_from(b, color, k) ==
    IF k > Len(FILES) THEN b
    ELSE add_pawns_from(
            IF color = "Black"
            THEN set(b, Sq(FILES[k], 7), <<"Black", "Pawn">>)
            ELSE set(b, Sq(FILES[k], 2), <<"White", "Pawn">>),
            color, k + 1)

add_pawns(b, color) == add_pawns_from(b, color, 1)

add_queen(b, color) ==
    IF color = "Black"
    THEN set(b, Sq("d", 8), <<"Black", "Queen">>)
    ELSE set(b, Sq("d", 1), <<"White", "Queen">>)

add_rooks(b, color) ==
    IF color = "Black"
    THEN set(set(b, Sq("a", 8), <<"Black", "Rook">>), Sq("h", 8), <<"Black", "Rook">>)
    ELSE set(set(b, Sq("a", 1), <<"White", "Rook">>), Sq("h", 1), <<"White", "Rook">>)

add_all(b, color) ==
    add_rooks(add_queen(add_knights(add_king(add_pawns(add_bishops(b, color), color),
                                             color), color), color), color)

\* Board::new
NewBoard ==
    add_all(add_all([squares |-> [i \in 0..7 |-> [j \in 0..7 |-> EMPTY]]], "Black"),
            "White")

\* self.squares.iter().flat_map(|c| c): column by column, rank index ascending
flat(b) == [k \in 1..64 |-> b.squares[(k - 1) \div 8][(k - 1) % 8]]

\* the fold of status over cells[lo..hi]: <<w_has_king, b_has_king>>.  The
\* fold's step only ORs a flag in, so the range is split in halves and the
\* halves' flags are ORed (a left-to-right recursion of depth 64 is too deep)
RECURSIVE fold_kings(_, _, _)
fold_kings(cells, lo, hi) ==
    IF lo = hi
    THEN (IF cells[lo][1] = "Black"
          THEN <<FALSE, cells[lo][2] = "King">>
          ELSE <<cells[lo][2] = "King", FALSE>>)
    ELSE LET mid == (lo + hi) \div 2
             l == fold_kings(cells, lo, mid)
             r == fold_kings(cells, mid + 1, hi)
         IN  <<l[1] \/ r[1], l[2] \/ r[2]>>

\* GameStatus, and the panic of status
InPlay == <<"InPlay">>

Finished(color) == <<"Finished", color>>

Panic == <<"panic">>

is_finished(st) == st[1] = "Finished"

\* Board::status: InPlay, Finished(color), or Panic when no king is found
status(b) ==
    LET kings == fold_kings(flat(b), 1, 64)
    IN  CASE kings = <<TRUE, TRUE>> -> InPlay
          [] kings = <<TRUE, FALSE>> -> Finished("White")
          [] kings = <<FALSE, TRUE>> -> Finished("Black")
          [] kings = <<FALSE, FALSE>> -> Panic

\* the fold of score over cells[lo..hi]: <<w_score, b_score>>, the halves'
\* sums added
RECURSIVE fold_score(_, _, _)
fold_score(cells, lo, hi) ==
    IF lo = hi
    THEN (IF cells[lo][1] = "Black"
          THEN <<0, value(cells[lo][2])>>
          ELSE <<value(cells[lo][2]), 0>>)
    ELSE LET mid == (lo + hi) \div 2
             l == fold_score(cells, lo, mid)
             r == fold_score(cells, mid + 1, hi)
         IN  <<l[1] + r[1], l[2] + r[2]>>

\* Board::score: <<white, black>>, or Panic when status() panics
score(b) ==
    LET st == status(b)
    IN  IF st = Panic THEN Panic
        ELSE IF is_finished(st)
        THEN (IF st[2] = "Black" THEN <<0, 100>> ELSE <<100, 0>>)
        ELSE fold_score(flat(b), 1, 64)

\* exec_move that copies the piece and leaves the source square as it was
exec_move_keep_from(b, from, to) ==
    set(b, to, get(b, from))

\* exec_move that reads the moving piece after clearing its square
exec_move_stale(b, from, to) ==
    LET cleared == set(b, from, EMPTY)
    IN  set(cleared, to, get(cleared, from))

\* Board::exec_move
exec_move(b, from, to) ==
    LET from_piece == get(b, from)
    IN  set(set(b, from, EMPTY), to, from_piece)

\* the in-between filter of is_legal: some square between holds a piece
blocked(b, from, to) ==
    LET between == in_between(from, to).nodes
    IN  \E k \in 1..Len(between) : get(b, between[k])[2] # "Empty"

\* is_legal without the two pawn rules
is_legal_no_pawn_rule(b, from, to) ==
    LET f == get(b, from)
        t == get(b, to)
    IN  IF f[1] = t[1] /\ t[2] # "Empty" THEN FALSE
        ELSE IF f[2] # "Knight" /\ blocked(b, from, to) THEN FALSE
        ELSE TRUE

\* Board::is_legal
is_legal(b, from, to) ==
    LET f == get(b, from)
        t == get(b, to)
    IN  IF f[1] = t[1] /\ t[2] # "Empty" THEN FALSE
        ELSE IF f[2] = "Pawn" /\ from.file = to.file /\ t[2] # "Empty" THEN FALSE
        ELSE IF f[2] = "Pawn" /\ from.file # to.file /\ t[2] = "Empty" THEN FALSE
        ELSE IF f[2] # "Knight" /\ blocked(b, from, to) THEN FALSE
        ELSE TRUE

\* the moves legal_moves keeps for one square: its destinations in
\* available_moves order, filtered by is_legal
square_moves(b, color, k) ==
    LET square == from_indexes(k \div 8, k % 8)
        piece == get(b, square)
        dests == IF piece[1] = color THEN available_moves(square, piece) ELSE <<>>
    IN  SelectSeq([n \in 1..Len(dests) |-> <<square, dests[n]>>],
                  LAMBDA m : is_legal(b, m[1], m[2]))

\* the traversal of legal_moves over squares lo..hi in (file, rank) index order
RECURSIVE flat_map_moves(_, _, _, _)
flat_map_moves(b, color, lo, hi) ==
    IF lo = hi THEN square_moves(b, color, lo)
    ELSE LET mid == (lo + hi) \div 2
         IN  flat_map_moves(b, color, lo, mid) \o flat_map_moves(b, color, mid + 1, hi)

\* Board::legal_moves: a Vec of moves
legal_moves(b, color) == flat_map_moves(b, color, 0, 63)

Range(seq) == {seq[k] : k \in 1..Len(seq)}

\* is_legal(from, to) gets past its early returns of lines 396-407 and calls
\* from.in_between(to) (line 410)
calls_in_between(b, from, to) ==
    LET f == get(b, from)
        t == get(b, to)
    IN  /\ ~(f[1] = t[1] /\ t[2] # "Empty")
        /\ ~(f[2] = "Pawn" /\ from.file = to.file /\ t[2] # "Empty")
        /\ ~(f[2] = "Pawn" /\ from.file # to.file /\ t[2] = "Empty")
        /\ f[2] # "Knight"

\* the pairs on which legal_moves(color) calls in_between, through is_legal
in_between_calls(b, color) ==
    {m \in UNION {{<<from, to>> : to \in Range(available_moves(from, get(b, from)))} :
                    from \in {sq \in Squares : get(b, sq)[1] = color}} :
        calls_in_between(b, m[1], m[2])}

(***************************************************************************)
(* GameTreeNode.  A node is [board, turn, size, children] with children a  *)
(* function from the sampled moves to Option<node>.                        *)
(***************************************************************************)
\* the subsets of S with k elements
RECURSIVE KSubsets(_, _)
KSubsets(S, k) ==
    IF k = 0 THEN {{}}
    ELSE IF S = {} THEN {}
    ELSE LET x == CHOOSE y \in S : TRUE
         IN  KSubsets(S \ {x}, k) \cup {T \cup {x} : T \in KSubsets(S \ {x}, k - 1)}

Min(a, b) == IF a < b THEN a ELSE b

\* the key sets shuffle-then-take(size) can leave: the moves at any `size`
\* positions of the Vec (all of them when it is shorter)
sampled_keys(moves, size) ==
    {{moves[i] : i \in I} : I \in KSubsets(1..Len(moves), Min(size, Len(moves)))}

\* the key sets when the shuffled moves are not filtered by is_legal
unfiltered_moves(b, color) ==
    LET per_square(k) ==
            LET square == from_indexes(k \div 8, k % 8)
                piece == get(b, square)
                dests == IF piece[1] = color THEN available_moves(square, piece) ELSE <<>>
            IN  {<<square, dests[n]>> : n \in 1..Len(dests)}
    IN  UNION {per_square(k) : k \in 0..63}

\* GameTreeNode::new over geometric moves instead of legal moves
NewNodes_unfiltered(b, color, size) ==
    {[board |-> b, turn |-> color, size |-> size, children |-> [m \in K |-> None]] :
        K \in KSubsets(unfiltered_moves(b, color),
                       Min(size, Cardinality(unfiltered_moves(b, color))))}

\* GameTreeNode::new: every node the shuffle can produce
NewNodes(b, color, size) ==
    {[board |-> b, turn |-> color, size |-> size, children |-> [m \in K |-> None]] :
        K \in sampled_keys(legal_moves(b, color), size)}

\* the functions that pick one element of F[k] for every k in DOMAIN F
RECURSIVE Choices(_)
Choices(F) ==
    IF DOMAIN F = {} THEN {<<>>}
    ELSE LET k == CHOOSE x \in DOMAIN F : TRUE
             rest == Choices([j \in DOMAIN F \ {k} |-> F[j]])
         IN  {(k :> v) @@ g : v \in F[k], g \in rest}

\* exec_random_moves(depth, None) that stops at depth == 0 instead of at
\* depth - 1 == 0
RECURSIVE Expand_to_zero(_, _)
Expand_to_zero(node, depth) ==
    IF status(node.board) # InPlay \/ depth = 0 THEN {node}
    ELSE {[node EXCEPT !.children = ch] :
            ch \in Choices([m \in DOMAIN node.children |->
                    {Some(t) : t \in UNION {Expand_to_zero(n, depth - 1) :
                        n \in NewNodes(exec_move(node.board, m[1], m[2]),
                                       other(node.turn), node.size \div 2)}}])}

\* GameTreeNode::exec_random_moves(depth, None) for depth >= 1: every node the
\* call can leave in place of `node`.  (No caller passes depth 0, where
\* depth - 1 underflows; a board without kings makes status() panic, which no
\* board reached in play does.)
RECURSIVE Expand(_, _)
Expand(node, depth) ==
    IF status(node.board) # InPlay THEN {node}
    ELSE LET runs == node.size \div 2
             new_depth == depth - 1
             color == other(node.turn)
         IN  IF new_depth = 0 THEN {node}
             ELSE {[node EXCEPT !.children = ch] :
                    ch \in Choices([m \in DOMAIN node.children |->
                            {Some(t) : t \in UNION {Expand(n, new_depth) :
                                n \in NewNodes(exec_move(node.board, m[1], m[2]),
                                               color, runs)}}])}

\* the realized children of a node: self.children.values().filter(is_some)
executed(node) ==
    {unwrap(node.children[m]) : m \in {k \in DOMAIN node.children : node.children[k] # None}}

RECURSIVE SumOver(_, _)
\* the sum of f[x] over the elements x of S
SumOver(S, f) ==
    IF S = {} THEN 0
    ELSE LET x == CHOOSE y \in S : TRUE IN f[x] + SumOver(S \ {x}, f)

\* size() that counts the node itself as well as its realized descendants
RECURSIVE size_counting_self(_)
size_counting_self(node) ==
    1 + SumOver(executed(node), [c \in executed(node) |-> size_counting_self(c)])

\* GameTreeNode::size
RECURSIVE size(_)
size(node) ==
    IF executed(node) = {} THEN 1
    ELSE SumOver(executed(node), [c \in executed(node) |-> size(c)])

(***************************************************************************)
(* f64 scores are modelled as exact fractions <<numerator, denominator>>   *)
(* in lowest terms with a positive denominator.                            *)
(***************************************************************************)
RECURSIVE gcd(_, _)
gcd(a, b) == IF b = 0 THEN a ELSE gcd(b, a % b)

frac(n, d) == LET g == gcd(abs(n), d) IN <<n \div g, d \div g>>

frac_add(x, y) == frac(x[1] * y[2] + y[1] * x[2], x[2] * y[2])

frac_div(x, k) == frac(x[1], x[2] * k)

frac_gt(x, y) == x[1] * y[2] > y[1] * x[2]

frac_ge(x, y) == x[1] * y[2] >= y[1] * x[2]

RECURSIVE SumFracs(_, _)
SumFracs(S, f) ==
    IF S = {} THEN frac(0, 1)
    ELSE LET x == CHOOSE y \in S : TRUE IN frac_add(f[x], SumFracs(S \ {x}, f))

\* the differential score of avg_score: color's score minus the opponent's
differential(b, color) ==
    IF color = "Black" THEN score(b)[2] - score(b)[1] ELSE score(b)[1] - score(b)[2]

\* avg_score as the flat mean over the node and all its realized descendants
RECURSIVE flat_sum(_, _)
flat_sum(node, color) ==
    differential(node.board, color)
    + SumOver(executed(node), [c \in executed(node) |-> flat_sum(c, color)])

RECURSIVE flat_count(_)
flat_count(node) ==
    1 + SumOver(executed(node), [c \in executed(node) |-> flat_count(c)])

avg_score_flat(node, color) == frac(flat_sum(node, color), flat_count(node))

\* GameTreeNode::avg_score
RECURSIVE avg_score(_, _)
avg_score(node, color) ==
    LET sc == frac(differential(node.board, color), 1)
        sum == frac_add(sc, SumFracs(executed(node),
                                     [c \in executed(node) |-> avg_score(c, color)]))
        count == 1 + Cardinality(executed(node))
    IN  IF executed(node) = {} THEN sc
        ELSE IF count = 0 THEN frac(-100, 1)
        ELSE frac_div(sum, count)

\* the selection loop of next_move over tree.children visited in the order
\* `visit` from position k on: <<max_avg_score, result>>
RECURSIVE select_from(_, _, _, _, _)
select_from(root, color, visit, k, acc) ==
    IF k > Len(visit) THEN acc
    ELSE LET child == root.children[visit[k]]
             better == child # None /\ frac_gt(avg_score(unwrap(child), color), acc[1])
         IN  select_from(root, color, visit, k + 1,
                         IF better
                         THEN <<avg_score(unwrap(child), color), Some(visit[k])>>
                         ELSE acc)

\* the selection with max_avg_score starting at 0.0
select_move_from_zero(root, color, visit) ==
    select_from(root, color, visit, 1, <<frac(0, 1), None>>)[2]

\* next_move, lines 651-676: the move it returns for the expanded tree
select_move(root, color, visit) ==
    select_from(root, color, visit, 1, <<frac(-1000, 1), None>>)[2]

\* the orders in which a HashMap with key set S can be iterated
RECURSIVE Orders(_)
Orders(S) ==
    IF S = {} THEN {<<>>}
    ELSE UNION {{<<x>> \o o : o \in Orders(S \ {x})} : x \in S}

(***************************************************************************)
(* Positions reached in play.  RecordedGame is one game from Board::new(), *)
(* White moving first and the sides alternating; every move of it is       *)
(* checked to be in legal_moves of the side to move on an InPlay board     *)
(* (RecordedGameLegal), so each BoardAfter(n) is a board the game loop can *)
(* hold.  After its last move Black has no legal move.                     *)
(***************************************************************************)
Mv(ff, fr, tf, tr) == <<Sq(ff, fr), Sq(tf, tr)>>

RecordedGame ==
    << 
       Mv("e", 2, "e", 3), Mv("c", 7, "c", 5), Mv("d", 1, "h", 5), Mv("d", 8, "a", 5),
       Mv("h", 5, "h", 7), Mv("a", 5, "d", 2), Mv("h", 7, "h", 8), Mv("d", 2, "c", 2),
       Mv("h", 8, "g", 8), Mv("c", 2, "c", 1), Mv("g", 8, "g", 7), Mv("c", 1, "e", 3),
       Mv("g", 7, "f", 8), Mv("e", 3, "f", 2), Mv("f", 8, "f", 7), Mv("f", 2, "f", 1),
       Mv("f", 7, "e", 7), Mv("f", 1, "g", 1), Mv("e", 7, "d", 7), Mv("g", 1, "h", 1),
       Mv("d", 7, "c", 8), Mv("h", 1, "h", 2), Mv("c", 8, "b", 8), Mv("h", 2, "g", 2),
       Mv("b", 8, "a", 8), Mv("b", 7, "b", 5), Mv("a", 8, "b", 8), Mv("b", 5, "b", 4),
       Mv("b", 8, "g", 3), Mv("g", 2, "g", 3), Mv("e", 1, "f", 1), Mv("g", 3, "g", 2),
       Mv("f", 1, "g", 2), Mv("e", 8, "d", 7), Mv("b", 1, "c", 3), Mv("d", 7, "d", 6),
       Mv("a", 1, "b", 1), Mv("d", 6, "d", 5), Mv("c", 3, "d", 1), Mv("d", 5, "d", 4),
       Mv("g", 2, "g", 3), Mv("d", 4, "d", 3), Mv("g", 3, "g", 4), Mv("d", 3, "c", 2),
       Mv("g", 4, "g", 5), Mv("c", 2, "b", 2), Mv("g", 5, "g", 4), Mv("b", 2, "a", 1),
       Mv("d", 1, "b", 2), Mv("b", 4, "b", 3), Mv("g", 4, "g", 3), Mv("b", 3, "a", 2),
       Mv("g", 3, "f", 3), Mv("a", 2, "b", 1), Mv("f", 3, "f", 4), Mv("c", 5, "c", 4),
       Mv("f", 4, "f", 3), Mv("c", 4, "c", 3), Mv("f", 3, "e", 3), Mv("c", 3, "b", 2),
       Mv("e", 3, "e", 2), Mv("a", 7, "a", 5), Mv("e", 2, "e", 1), Mv("a", 5, "a", 4),
       Mv("e", 1, "f", 1), Mv("a", 4, "a", 3), Mv("f", 1, "e", 1), Mv("a", 3, "a", 2),
       Mv("e", 1, "d", 1) >>

\* RecordedGame[lo..hi] applied to b by exec_move, in order.  The first half
\* is evaluated (the test on l) before the second half starts from it, which
\* keeps the evaluation shallow.
RECURSIVE apply_moves(_, _, _)
apply_moves(b, lo, hi) ==
    IF lo > hi THEN b
    ELSE IF lo = hi THEN exec_move(b, RecordedGame[lo][1], RecordedGame[lo][2])
    ELSE LET mid == (lo + hi) \div 2
             l == apply_moves(b, lo, mid)
         IN  IF DOMAIN l.squares = 0..7 THEN apply_moves(l, mid + 1, hi) ELSE l

BoardAfter(n) == apply_moves(NewBoard, 1, n)

TurnAfter(n) == IF n % 2 = 0 THEN "White" ELSE "Black"

RecordedGameLegal ==
    \A k \in 1..Len(RecordedGame) :
        /\ status(BoardAfter(k - 1)) = InPlay
        /\ RecordedGame[k] \in Range(legal_moves(BoardAfter(k - 1), TurnAfter(k - 1)))

\* plies of RecordedGame after which the play specification starts
PlaySamples == {0, 14, 29, 50, 60, 67, 69}

\* bound: turns of the game loop explored from each starting position
MaxTurns == 1

(***************************************************************************)
(* State                                                                   *)
(***************************************************************************)
VARIABLES
    board,       \* main: board
    turn,        \* main: turn
    turn_count,  \* main: turn_count
    pc,          \* "loop" at the top of main's loop, "wait" inside the root's
                 \* exec_random_moves, "returned" when next_move has returned,
                 \* "done" after break; "new"/"expanded" for a lone node
    tree,        \* next_move: tree (Option, None outside next_move)
    depth,       \* the depth argument of the exec_random_moves call on tree
    futures,     \* exec_random_moves: futures, as the keys in spawn order
    pool,        \* the (key, node) results of the closures that have run
    waited,      \* how many of futures have been waited for
    visit,       \* next_move: the order in which tree.children was iterated
    result       \* next_move: result

vars == <<board, turn, turn_count, pc, tree, depth, futures, pool, waited, visit, result>>

search_vars == <<tree, depth, futures, pool, waited, visit, result>>

\* no search in progress
SearchIdle ==
    /\ tree = None /\ depth = 0 /\ futures = <<>> /\ pool = {}
    /\ waited = 0 /\ visit = <<>> /\ result = None

(***************************************************************************)
(* The game loop with next_move left open: the move played is any element  *)
(* of legal_moves of the side to move, and no move when there is none.     *)
(***************************************************************************)
InitPlay ==
    /\ \E n \in PlaySamples : board = BoardAfter(n) /\ turn = TurnAfter(n)
    /\ turn_count = 0
    /\ pc = "loop"
    /\ SearchIdle

\* main's loop body for a result Some((from, to))
PlayMove ==
    /\ pc = "loop"
    /\ turn_count < MaxTurns
    /\ \E m \in Range(legal_moves(board, turn)) :
          /\ board' = exec_move(board, m[1], m[2])
          /\ IF is_finished(status(board'))
             THEN pc' = "done" /\ turn' = turn
             ELSE pc' = "loop" /\ turn' = other(turn)
    /\ turn_count' = turn_count + 1
    /\ UNCHANGED search_vars

\* main's loop body for a result None
PassTurn ==
    /\ pc = "loop"
    /\ turn_count < MaxTurns
    /\ legal_moves(board, turn) = <<>>
    /\ turn' = other(turn)
    /\ turn_count' = turn_count + 1
    /\ UNCHANGED <<board, pc>>
    /\ UNCHANGED search_vars

NextPlay == PlayMove \/ PassTurn

SpecPlay == InitPlay /\ [][NextPlay]_vars

(***************************************************************************)
(* The program: main's loop around next_move, with the root expansion      *)
(* fanned out to the pool.  RootBudget and RootDepth stand for the 64 and  *)
(* the 5 of next_move.                                                     *)
(***************************************************************************)
\* bound: the budget next_move gives the root (64 in the source)
RootBudget == 2

\* bound: the depth next_move passes to exec_random_moves (5 in the source)
RootDepth == 3

\* bound: turns of main's loop explored by the program specification
MaxSearchTurns == 2

\* plies of RecordedGame after which the program specification starts
SearchSamples == {66, 67, 69}

Init ==
    /\ \E n \in SearchSamples : board = BoardAfter(n) /\ turn = TurnAfter(n)
    /\ turn_count = 0
    /\ pc = "loop"
    /\ SearchIdle

\* main line 689 and next_move lines 648-649 up to the end of the spawn loop
\* of exec_random_moves (lines 573-598)
StartSearch ==
    /\ pc = "loop"
    /\ turn_count < MaxSearchTurns
    /\ turn_count' = turn_count + 1
    /\ \E root \in NewNodes(board, turn, RootBudget) :
          /\ tree' = Some(root)
          /\ IF status(root.board) # InPlay \/ RootDepth - 1 = 0
             THEN futures' = <<>>
             ELSE futures' \in Orders(DOMAIN root.children)
    /\ depth' = RootDepth
    /\ pool' = {}
    /\ waited' = 0
    /\ pc' = "wait"
    /\ UNCHANGED <<board, turn, visit, result>>

\* the closure spawned for key k runs on a pool thread (lines 591-596)
RunTask(k) ==
    /\ pc = "wait"
    /\ \A p \in pool : p[1] # k
    /\ LET root == unwrap(tree)
           new_state == exec_move(root.board, k[1], k[2])
       IN  \E n \in NewNodes(new_state, other(root.turn), root.size \div 2) :
              \E t \in Expand(n, depth - 1) :
                 pool' = pool \cup {<<k, t>>}
    /\ UNCHANGED <<board, turn, turn_count, pc, tree, depth, futures, waited, visit, result>>

\* HashMap::insert: the key is added when absent, its value replaced otherwise
insert(map, key, val) == [k \in DOMAIN map \cup {key} |-> IF k = key THEN val ELSE map[k]]

\* future.wait() on the next future returns and its node is inserted
\* (lines 600-604)
WaitFuture ==
    /\ pc = "wait"
    /\ waited < Len(futures)
    /\ \E p \in pool :
          /\ p[1] = futures[waited + 1]
          /\ tree' = Some([unwrap(tree) EXCEPT
                              !.children = insert(@, p[1], Some(p[2]))])
    /\ waited' = waited + 1
    /\ UNCHANGED <<board, turn, turn_count, pc, depth, futures, pool, visit, result>>

\* the selection loop starting while futures are still to be waited for
Select_without_join ==
    /\ pc = "wait"
    /\ \E order \in Orders(DOMAIN unwrap(tree).children) :
          /\ visit' = order
          /\ result' = select_move(unwrap(tree), turn, order)
    /\ pc' = "returned"
    /\ UNCHANGED <<board, turn, turn_count, tree, depth, futures, pool, waited>>

\* exec_random_moves has returned; the selection loop of next_move runs over
\* tree.children in some iteration order (lines 651-676)
Select ==
    /\ pc = "wait"
    /\ waited = Len(futures)
    /\ \E order \in Orders(DOMAIN unwrap(tree).children) :
          /\ visit' = order
          /\ result' = select_move(unwrap(tree), turn, order)
    /\ pc' = "returned"
    /\ UNCHANGED <<board, turn, turn_count, tree, depth, futures, pool, waited>>

\* the rest of main's loop body (lines 691-703)
MainStep ==
    /\ pc = "returned"
    /\ IF result # None
       THEN /\ board' = exec_move(board, unwrap(result)[1], unwrap(result)[2])
            /\ IF is_finished(status(board'))
               THEN pc' = "done" /\ turn' = turn
               ELSE pc' = "loop" /\ turn' = other(turn)
       ELSE /\ board' = board
            /\ turn' = other(turn)
            /\ pc' = "loop"
    /\ tree' = None /\ depth' = 0 /\ futures' = <<>> /\ pool' = {}
    /\ waited' = 0 /\ visit' = <<>> /\ result' = None
    /\ UNCHANGED turn_count

Next ==
    \/ StartSearch
    \/ \E k \in Range(futures) : RunTask(k)
    \/ WaitFuture
    \/ Select
    \/ MainStep

Spec == Init /\ [][Next]_vars

(***************************************************************************)
(* A lone node: GameTreeNode::new followed by exec_random_moves(depth,     *)
(* None), over boards the program builds nodes on.                         *)
(***************************************************************************)
\* the board after RecordedGame, Black's pass, White's Kd1-c1 and Black's
\* b2xc1: White's king is captured
KingCaptured ==
    exec_move(exec_move(BoardAfter(69), Sq("d", 1), Sq("c", 1)), Sq("b", 2), Sq("c", 1))

\* <<board, turn>> of the nodes the tree specification starts from
TreeRoots ==
    {<<BoardAfter(66), "White">>, <<BoardAfter(67), "Black">>, <<BoardAfter(69), "Black">>,
     <<BoardAfter(69), "White">>, <<KingCaptured, "White">>}

InitTree ==
    /\ \E r \in TreeRoots, sz \in 0..RootBudget :
          /\ board = r[1] /\ turn = r[2]
          /\ tree \in {Some(n) : n \in NewNodes(r[1], r[2], sz)}
    /\ depth \in 1..RootDepth
    /\ pc = "new"
    /\ turn_count = 0
    /\ futures = <<>> /\ pool = {} /\ waited = 0 /\ visit = <<>> /\ result = None

\* node.exec_random_moves(depth, None)
BuildTree ==
    /\ pc = "new"
    /\ tree' \in {Some(t) : t \in Expand(unwrap(tree), depth)}
    /\ pc' = "expanded"
    /\ UNCHANGED <<board, turn, turn_count, depth, futures, pool, waited, visit, result>>

SpecTree == InitTree /\ [][BuildTree]_vars

(***************************************************************************)
(* Properties of next_move and of main's loop, checked under Spec          *)
(***************************************************************************)
\* C1: whenever next_move has returned, for whatever shuffle, spawn order,
\* task interleaving and iteration order, its result is either None or a move
\* that is an element of board.legal_moves(turn).
C1_ResultLegal ==
    (pc = "returned" /\ result # None) =>
        unwrap(result) \in Range(legal_moves(board, turn))

\* next_move has returned a move after its tasks ran
C1_Witness ==
    /\ pc = "returned"
    /\ result # None
    /\ waited = RootBudget
    /\ Len(legal_moves(board, turn)) > RootBudget

\* C3 (as stated): a step of main's loop taken on a None result of next_move
\* ends the loop: from "next_move returned None" the program only goes to
\* "done", never back to the top of the loop for another turn.
C3_NoMoveEndsLoop ==
    [][(pc = "returned" /\ result = None) => pc' = "done"]_vars

\* C4: when next_move has returned, its result is a move exactly when some
\* root child was realized; the returned move's child is realized, its
\* avg_score(turn) is at least that of every realized root child and strictly
\* greater than that of every realized child visited before it.
C4_BestChild ==
    pc = "returned" =>
        LET root == unwrap(tree)
            avg(k) == avg_score(unwrap(root.children[k]), turn)
            realized == {k \in DOMAIN root.children : root.children[k] # None}
            pos(k) == CHOOSE i \in 1..Len(visit) : visit[i] = k
        IN  /\ (result # None) = (realized # {})
            /\ result # None =>
                  /\ unwrap(result) \in realized
                  /\ \A k \in realized : frac_ge(avg(unwrap(result)), avg(k))
                  /\ \A k \in realized :
                        pos(k) < pos(unwrap(result)) => frac_gt(avg(unwrap(result)), avg(k))

\* next_move has returned the better of two realized root children with
\* different averages, the better one visited last
C4_Witness ==
    /\ pc = "returned"
    /\ result # None
    /\ Len(visit) = 2
    /\ unwrap(result) = visit[2]
    /\ unwrap(tree).children[visit[1]] # None
    /\ frac_gt(avg_score(unwrap(unwrap(tree).children[visit[2]]), turn),
               avg_score(unwrap(unwrap(tree).children[visit[1]]), turn))

(***************************************************************************)
(* Properties of a node after exec_random_moves, checked under SpecTree    *)
(***************************************************************************)
\* the keys of a node whose child is realized
realized_keys(node) == {k \in DOMAIN node.children : node.children[k] # None}

\* the number of plies of realized nodes below a node
RECURSIVE height(_)
height(node) ==
    IF executed(node) = {} THEN 0
    ELSE 1 + CHOOSE h \in {height(c) : c \in executed(node)} :
                 \A c \in executed(node) : height(c) <= h

\* C5 (as stated): size() of a node without realized child is 1, and of a
\* node whose k children are all realized and none expanded further is 1 + k.
C5_SizeOnePlusK ==
    pc = "expanded" =>
        LET node == unwrap(tree)
        IN  /\ executed(node) = {} => size(node) = 1
            /\ height(node) = 1 => size(node) = 1 + Cardinality(executed(node))

\* C5 (amended): size() of a node without realized child is 1; of a node
\* whose k >= 1 children are realized and none expanded further it is k, the
\* node itself not counted; one level deeper it is the sum over the children
\* of the number of their realized children, a child without any counting 1.
C5_SizeCountsLeaves ==
    pc = "expanded" =>
        LET node == unwrap(tree)
            below(c) == IF executed(c) = {} THEN 1 ELSE Cardinality(executed(c))
        IN  /\ executed(node) = {} => size(node) = 1
            /\ height(node) = 1 => size(node) = Cardinality(executed(node))
            /\ height(node) = 2 =>
                  size(node) = SumOver(executed(node), [c \in executed(node) |-> below(c)])

\* one level of full expansion: the node has k >= 1 legal moves, k within its
\* budget, all k children realized and none expanded further
C5_Witness ==
    /\ pc = "expanded"
    /\ depth = 2
    /\ LET node == unwrap(tree)
       IN  /\ Len(legal_moves(node.board, node.turn)) >= 1
           /\ Len(legal_moves(node.board, node.turn)) <= node.size
           /\ Cardinality(realized_keys(node)) = Len(legal_moves(node.board, node.turn))
           /\ height(node) = 1

RECURSIVE ExpandedTo(_, _, _)
ExpandedTo(node, d, base) ==
    IF is_finished(status(node.board)) \/ d = base
    THEN realized_keys(node) = {}
    ELSE \A k \in DOMAIN node.children :
            /\ node.children[k] # None
            /\ LET c == unwrap(node.children[k])
               IN  /\ c.size = node.size \div 2
                   /\ c.turn = other(node.turn)
                   /\ c.board = exec_move(node.board, k[1], k[2])
                   /\ ExpandedTo(c, d - 1, base)

\* C10 (as stated): exec_random_moves(depth) leaves a node untouched exactly
\* when its board is Finished or depth = 0, and realizes every key on an
\* InPlay node for any depth >= 1, recursively with depth - 1.
C10_StopsAtZero ==
    pc = "expanded" => ExpandedTo(unwrap(tree), depth, 0)

\* C10 (amended): for depth >= 1, exec_random_moves(depth) leaves a node
\* untouched exactly when its board is Finished or depth = 1; on an InPlay
\* node with depth >= 2 it realizes every key with a node of budget size / 2
\* and mover turn.other(), recursively with depth - 1.  So the realized nodes
\* reach at most depth - 1 plies below the node (4 for next_move's depth 5),
\* and exactly depth - 1 along every line of InPlay boards with keys.
C10_StopsAtOne ==
    pc = "expanded" =>
        /\ ExpandedTo(unwrap(tree), depth, 1)
        /\ height(unwrap(tree)) <= depth - 1

\* exec_random_moves(2) on an InPlay node with keys: every key is realized,
\* and a child that is InPlay and has keys, expanded with depth 1, is left
\* untouched
C10_Witness ==
    /\ pc = "expanded"
    /\ depth = 2
    /\ LET node == unwrap(tree)
       IN  /\ status(node.board) = InPlay
           /\ DOMAIN node.children # {}
           /\ realized_keys(node) = DOMAIN node.children
           /\ \E c \in executed(node) :
                 /\ status(c.board) = InPlay
                 /\ DOMAIN c.children # {}
                 /\ realized_keys(c) = {}

(***************************************************************************)
(* The fan-out of the root expansion to the pool, checked under Spec       *)
(***************************************************************************)
\* the keys for which a spawned closure has produced its result
completed == {p[1] : p \in pool}

\* C11: while the root's exec_random_moves runs on an InPlay board and after
\* it has returned, for every spawn order and every interleaving of the
\* closures, there is exactly one future per root key and never another one;
\* each closure gives at most one result, for its own key; the keys realized
\* so far are those of the futures waited for, whose closures have completed.
\* Once exec_random_moves has returned every closure has completed, the key
\* set is the one sampled at construction, and every key maps to a realized
\* node whose board is the root board after that key's move.
C11_JoinAll ==
    (pc \in {"wait", "returned"} /\ status(board) = InPlay /\ depth - 1 # 0) =>
        LET root == unwrap(tree)
            keys == DOMAIN root.children
        IN  /\ root.board = board /\ root.turn = turn
            /\ keys \subseteq Range(legal_moves(board, turn))
            /\ Cardinality(keys) = Min(root.size, Len(legal_moves(board, turn)))
            /\ Len(futures) = Cardinality(keys)
            /\ Range(futures) = keys
            /\ completed \subseteq keys
            /\ \A p \in pool, q \in pool : p[1] = q[1] => p = q
            /\ realized_keys(root) = {futures[i] : i \in 1..waited}
            /\ realized_keys(root) \subseteq completed
            /\ \A p \in pool : p[2].board = exec_move(board, p[1][1], p[1][2])
            /\ \A k \in realized_keys(root) : <<k, unwrap(root.children[k])>> \in pool
            /\ pc = "returned" =>
                  /\ waited = Len(futures)
                  /\ completed = keys
                  /\ realized_keys(root) = keys
                  /\ \A k \in keys :
                        unwrap(root.children[k]).board = exec_move(board, k[1], k[2])

\* exec_random_moves has returned from a fan-out of one closure per sampled
\* key, the keys being fewer than the legal moves, with the HashMap iterated
\* for the selection in another order than the futures were spawned in
C11_Witness ==
    /\ pc = "returned"
    /\ status(board) = InPlay
    /\ Len(futures) = RootBudget
    /\ Len(legal_moves(board, turn)) > RootBudget
    /\ realized_keys(unwrap(tree)) = Range(futures)
    /\ visit # futures

(***************************************************************************)
(* Properties of the board rules, checked under SpecPlay                   *)
(***************************************************************************)
kings(b, color) == Cardinality({s \in Squares : get(b, s) = <<color, "King">>})

\* C2: every board the game loop holds has at most one king per color, both
\* kings while the game is in play and exactly one once a king was captured
\* (after which the loop has stopped); no board has zero kings, so status()
\* never panics.  The same holds one legal move further, which is how the
\* boards of search-tree nodes are made.  The boards the exploration starts
\* from are reached from Board::new() by legal moves (RecordedGameLegal).
C2_KingCount ==
    /\ RecordedGameLegal
    /\ kings(board, "White") <= 1 /\ kings(board, "Black") <= 1
    /\ status(board) # Panic
    /\ (pc = "loop") = (status(board) = InPlay)
    /\ (pc = "loop") = (kings(board, "White") + kings(board, "Black") = 2)
    /\ (pc = "done") = (kings(board, "White") + kings(board, "Black") = 1)
    /\ pc = "loop" =>
          \A m \in Range(legal_moves(board, turn)) :
             LET child == exec_move(board, m[1], m[2])
             IN  /\ status(child) # Panic
                 /\ kings(child, "White") <= 1 /\ kings(child, "Black") <= 1
                 /\ kings(child, "White") + kings(child, "Black") >= 1

\* a king was captured in play and the loop has stopped
C2_Witness ==
    /\ pc = "done"
    /\ turn_count > 0
    /\ kings(board, "White") + kings(board, "Black") = 1

\* the squares strictly between two aligned squares, by coordinates
StrictlyBetween(from, to) ==
    LET f == indexes(from)
        t == indexes(to)
    IN  {s \in Squares :
            LET x == indexes(s)
            IN  /\ s # from /\ s # to
                /\ (x[1] - f[1]) * (t[2] - f[2]) = (x[2] - f[2]) * (t[1] - f[1])
                /\ (x[1] - f[1]) * (x[1] - t[1]) <= 0
                /\ (x[2] - f[2]) * (x[2] - t[2]) <= 0}

\* the conditions C7 lists for a move of color c on board b
MeetsConditions(b, c, from, to) ==
    LET f == get(b, from)
        t == get(b, to)
    IN  /\ f[2] # "Empty" /\ f[1] = c
        /\ ~(t[2] # "Empty" /\ t[1] = c)
        /\ f[2] = "Pawn" =>
              IF from.file = to.file THEN t[2] = "Empty"
              ELSE t[2] # "Empty" /\ t[1] = other(c)
        /\ f[2] # "Knight" =>
              \A s \in StrictlyBetween(from, to) : get(b, s)[2] = "Empty"

\* C7: on every board reached in play and for both colors, legal_moves(c) is
\* exactly the set of geometric destinations of c's pieces that meet the
\* conditions: own non-empty mover, no own piece on the destination, pawns
\* straight onto empty and diagonally onto an enemy, nothing between for all
\* but knights.
C7_LegalMoves ==
    \A c \in Color :
        Range(legal_moves(board, c)) =
            {m \in UNION {{<<from, to>> : to \in Range(available_moves(from, get(board, from)))} :
                          from \in Squares} :
                MeetsConditions(board, c, m[1], m[2])}

\* a board reached by a move on which a pawn capture is legal and a slider's
\* geometric destination is rejected because a piece stands in between
C7_Witness ==
    /\ turn_count > 0
    /\ \E c \in Color : \E m \in Range(legal_moves(board, c)) :
          get(board, m[1])[2] = "Pawn" /\ m[1].file # m[2].file
    /\ \E from \in Squares :
          /\ get(board, from)[2] \in {"Rook", "Bishop", "Queen"}
          /\ \E to \in Range(available_moves(from, get(board, from))) :
                /\ get(board, to)[2] = "Empty"
                /\ ~is_legal(board, from, to)

\* C8: on the starting position White has exactly 20 legal moves, the 16
\* single and double pawn advances and the 4 knight moves, none of them onto
\* a White piece.
C8_StartingMoves ==
    board = NewBoard =>
        LET lm == legal_moves(board, "White")
        IN  /\ Len(lm) = 20
            /\ Range(lm) =
                  {<<Sq(FILES[k], 2), Sq(FILES[k], 3)>> : k \in 1..8}
                  \cup {<<Sq(FILES[k], 2), Sq(FILES[k], 4)>> : k \in 1..8}
                  \cup {Mv("b", 1, "a", 3), Mv("b", 1, "c", 3),
                        Mv("g", 1, "f", 3), Mv("g", 1, "h", 3)}
            /\ \A m \in Range(lm) :
                  ~(get(board, m[2])[1] = "White" /\ get(board, m[2])[2] # "Empty")

\* the game loop is at the starting position with White to move, a knight
\* move and a double pawn advance among the legal moves
C8_Witness ==
    /\ board = NewBoard /\ turn = "White" /\ pc = "loop" /\ turn_count = 0
    /\ Mv("b", 1, "c", 3) \in Range(legal_moves(board, turn))
    /\ Mv("e", 2, "e", 4) \in Range(legal_moves(board, turn))

\* board c equals board b on every square but from and to
SameElsewhere(b, c, from, to) ==
    LET f == indexes(from)
        t == indexes(to)
    IN  \A i \in 0..7 :
            IF i # f[1] /\ i # t[1] THEN c.squares[i] = b.squares[i]
            ELSE \A j \in 0..7 :
                    (<<i, j>> # f /\ <<i, j>> # t) => c.squares[i][j] = b.squares[i][j]

\* C9: on every board reached in play, for distinct squares from and to
\* with to empty, exec_move(from, to) moves from's occupant to to, empties
\* from and changes no other square, and exec_move(to, from) on the result
\* gives the original board back.
C9_RoundTrip ==
    \A from \in Squares, to \in Squares :
        (from # to /\ get(board, to)[2] = "Empty") =>
            LET there == exec_move(board, from, to)
                back == exec_move(there, to, from)
            IN  /\ get(there, to) = get(board, from)
                /\ get(there, from) = EMPTY
                /\ SameElsewhere(board, there, from, to)
                /\ get(back, from) = get(board, from)
                /\ get(back, to) = get(board, to)
                /\ SameElsewhere(board, back, from, to)

\* a board reached by exec_move that has a piece to relocate and an empty square
C9_Witness ==
    /\ turn_count > 0
    /\ \E from \in Squares, to \in Squares :
          /\ from # to
          /\ get(board, from)[2] # "Empty"
          /\ get(board, to)[2] = "Empty"

(***************************************************************************)
(* Alignment of the generated destinations, checked under SpecPlay         *)
(***************************************************************************)
\* two squares share a file, a rank or a diagonal, by coordinates
Aligned(a, b) ==
    LET x == indexes(a)
        y == indexes(b)
    IN  \/ x[1] = y[1]
        \/ x[2] = y[2]
        \/ abs(x[1] - y[1]) = abs(x[2] - y[2])

\* for every square, color and piece other than Knight and Empty, every
\* destination of available_moves differs from the square, is aligned with
\* it, and in_between on the pair returns the squares strictly between them
GeneratorsAligned ==
    \A s \in Squares, c \in Color, p \in {"Bishop", "Rook", "Queen", "King", "Pawn"} :
        \A d \in Range(available_moves(s, <<c, p>>)) :
            /\ d # s
            /\ Aligned(s, d)
            /\ in_between(s, d).outcome = "ok"
            /\ Range(in_between(s, d).nodes) = StrictlyBetween(s, d)

\* C12: every destination that available_moves gives a Bishop, Rook, Queen,
\* King or Pawn of either color on any square is aligned with the square and
\* differs from it; and on every board reached in play, for both colors,
\* every pair on which legal_moves calls in_between through is_legal is
\* aligned, so that in_between returns normally: neither its panic nor its
\* unreachable!() is reached.
C12_InBetweenSafe ==
    /\ GeneratorsAligned
    /\ \A c \in Color :
          \A m \in in_between_calls(board, c) :
             /\ m[1] # m[2]
             /\ Aligned(m[1], m[2])
             /\ in_between(m[1], m[2]).outcome = "ok"

\* on a board reached by a move, legal_moves calls in_between for a Queen on
\* a diagonal pair with squares in between, for a King and for a Pawn
C12_Witness ==
    /\ turn_count > 0
    /\ \E c \in Color :
          /\ \E m \in in_between_calls(board, c) :
                /\ get(board, m[1])[2] = "Queen"
                /\ m[1].file # m[2].file /\ m[1].rank # m[2].rank
                /\ Len(in_between(m[1], m[2]).nodes) >= 1
          /\ \E m \in in_between_calls(board, c) : get(board, m[1])[2] = "King"
          /\ \E m \in in_between_calls(board, c) : get(board, m[1])[2] = "Pawn"

====
